---------------------------- MODULE Spec2Model ----------------------------
(***************************************************************************)
(* Model of convert_vcard_3_to_4 (src/vcard_converter.py, lines 45-167).  *)
(*                                                                         *)
(* Representation.  A character is a one-character string.  A line is a   *)
(* sequence of characters.  A text (a Python str that may hold '\n') is   *)
(* the sequence of its lines, i.e. what text.split('\n') returns; the     *)
(* empty text is therefore << <<>> >>, one empty line, and '\n'.join is   *)
(* the identity on this representation.  A settings value is a record     *)
(* [remove_fn, remove_photos] of booleans.                                *)
(***************************************************************************)
EXTENDS Integers, Sequences, FiniteSets

VARIABLES
    input_text,        \* argument of convert_vcard_3_to_4
    settings,          \* argument of convert_vcard_3_to_4
    pc,                \* position in the function body
    lines,             \* local `lines` (line 49, reassigned at line 74)
    i,                 \* index of the next element of `lines` to visit
    current_vcard,     \* local `current_vcard`
    vcards,            \* local `vcards`
    v,                 \* index of the next element of `vcards` to convert
    new_lines,         \* local `new_lines`
    skip_photo,        \* local `skip_photo`
    is_org,            \* local `is_org`
    converted_vcards,  \* local `converted_vcards`
    result             \* the returned text, NoResult before the return

vars ==
    <<input_text, settings, pc, lines, i, current_vcard, vcards, v,
      new_lines, skip_photo, is_org, converted_vcards, result>>

(***************************************************************************)
(* Bounds of the model.                                                    *)
(***************************************************************************)
\* Largest number of lines of an input text.
MaxLines ==
    4

(***************************************************************************)
(* String literals of the source.                                          *)
(***************************************************************************)
BEGIN_VCARD ==
    <<"B", "E", "G", "I", "N", ":", "V", "C", "A", "R", "D">>
END_VCARD ==
    <<"E", "N", "D", ":", "V", "C", "A", "R", "D">>
VERSION_ ==
    <<"V", "E", "R", "S", "I", "O", "N", ":">>
VERSION_4_0 ==
    <<"V", "E", "R", "S", "I", "O", "N", ":", "4", ".", "0">>
KIND_org ==
    <<"K", "I", "N", "D", ":", "o", "r", "g">>
X_ABShowAs_COMPANY ==
    <<"X", "-", "A", "B", "S", "h", "o", "w", "A", "s", ":", "C", "O", "M", "P", "A", "N", "Y">>
PHOTO_ ==
    <<"P", "H", "O", "T", "O", ";">>
FN_ ==
    <<"F", "N", ":">>
PRODID_Apple ==
    <<"P", "R", "O", "D", "I", "D", ":", "-", "/", "/", "A", "p", "p", "l", "e", " ", "I", "n", "c", ".", "/", "/">>
ADR ==
    <<"A", "D", "R">>
URL ==
    <<"U", "R", "L">>
TEL_ ==
    <<"T", "E", "L", ";">>
EMAIL_ ==
    <<"E", "M", "A", "I", "L", ";">>
item ==
    <<"i", "t", "e", "m">>
N_ ==
    <<"N", ":">>
ORG_ ==
    <<"O", "R", "G", ":">>
X_APPLE_ ==
    <<"X", "-", "A", "P", "P", "L", "E", "-">>
X_ABADR_ ==
    <<"X", "-", "A", "B", "A", "D", "R", ":">>
X_ABLabel_ ==
    <<"X", "-", "A", "B", "L", "a", "b", "e", "l", ":">>
TYPE_EQ ==
    <<"T", "Y", "P", "E", "=">>

(***************************************************************************)
(* Lines of the input texts the model draws from.                          *)
(***************************************************************************)
L_Version3 ==
    <<"V", "E", "R", "S", "I", "O", "N", ":", "3", ".", "0">>
L_Tel ==
    <<"T", "E", "L", ";", "t", "y", "p", "e", "=", "C", "E", "L", "L", ":", "5", "5", "5", "-", "1", "2", "3", "4">>
L_Photo ==
    <<"P", "H", "O", "T", "O", ";", "E", "N", "C", "O", "D", "I", "N", "G", "=", "b", ";", "T", "Y", "P", "E", "=", "J", "P", "E", "G", ":">>
L_ContSpace ==
    <<" ", "Q", "U", "J", "D">>
L_ContTab ==
    <<"\t", "Q", "U", "J", "D">>
L_Base64 ==
    <<"Q", "U", "J", "D">>
L_Fn ==
    <<"F", "N", ":", "A", "c", "m", "e">>
L_Prodid ==
    <<"P", "R", "O", "D", "I", "D", ":", "-", "/", "/", "A", "p", "p", "l", "e", " ", "I", "n", "c", ".", "/", "/", "m", "a", "c", "O", "S", "/", "/", "E", "N">>
L_Org ==
    <<"O", "R", "G", ":", "A", "c", "m", "e">>
L_NEmpty ==
    <<"N", ":", ";", ";", ";", ";">>
L_NSmithJohn ==
    <<"N", ":", "S", "m", "i", "t", "h", ";", "J", "o", "h", "n", ";", ";", ";">>
L_NSmithLong ==
    <<"N", ":", "S", "m", "i", "t", "h", ";", ";", ";", ";", ";", ";">>
L_NSix ==
    <<"N", ":", "a", ";", "b", ";", "c", ";", "d", ";", "e", ";", "f">>
L_NColon ==
    <<"N", ":", ";", ";", ":", "S", "m", "i", "t", "h">>
L_NBlank ==
    <<"N", ":", " ", ";", " ">>
L_NShort ==
    <<"N", ":", "S", "m", "i", "t", "h">>
L_Adr ==
    <<"i", "t", "e", "m", "1", ".", "A", "D", "R", ";", "t", "y", "p", "e", "=", "H", "O", "M", "E", ":", ";", ";", "1", " ", "S", "t">>
L_XAbAdr ==
    <<"i", "t", "e", "m", "1", ".", "X", "-", "A", "B", "A", "D", "R", ":", "u", "s">>
L_Email ==
    <<"E", "M", "A", "I", "L", ";", "t", "y", "p", "e", "=", "I", "N", "T", "E", "R", "N", "E", "T", ":", "a", "@", "b", ".", "c">>
L_Url ==
    <<"i", "t", "e", "m", "2", ".", "U", "R", "L", ":", "u", ".", "i", "o">>
L_NAdr ==
    <<"N", ":", "P", "A", "D", "R", "O", "N", ";", "A", "n", "a">>

\* Characters str.strip() removes from both ends (line 49, 70, 74, 84, 91).
Whitespace ==
    {" ", "\t", "\n", "\r", "\f"}

\* \d of the patterns of lines 123 and 140.
Digits ==
    {"0", "1", "2", "3", "4", "5", "6", "7", "8", "9"}

\* The character class [A-Za-z0-9+/=] of the pattern of line 100.
Base64Class ==
    {"A", "B", "C", "D", "E", "F", "G", "H", "I", "J", "K", "L", "M"}
    \cup {"N", "O", "P", "Q", "R", "S", "T", "U", "V", "W", "X", "Y", "Z"}
    \cup {"a", "b", "c", "d", "e", "f", "g", "h", "i", "j", "k", "l", "m"}
    \cup {"n", "o", "p", "q", "r", "s", "t", "u", "v", "w", "x", "y", "z"}
    \cup {"0", "1", "2", "3", "4", "5", "6", "7", "8", "9", "+", "/", "="}

(***************************************************************************)
(* Python string operations used by the source.                            *)
(***************************************************************************)
\* s.startswith(p)
StartsWith(s, p) ==
    /\ Len(s) >= Len(p)
    /\ SubSeq(s, 1, Len(p)) = p

\* p in s
Contains(s, p) ==
    \E k \in 1..(Len(s) - Len(p) + 1) : SubSeq(s, k, k + Len(p) - 1) = p

\* s.lstrip() of one line
RECURSIVE LStrip(_)
LStrip(s) ==
    IF s # <<>> /\ Head(s) \in Whitespace THEN LStrip(Tail(s)) ELSE s

\* s.rstrip() of one line
RECURSIVE RStrip(_)
RStrip(s) ==
    IF s # <<>> /\ s[Len(s)] \in Whitespace
    THEN RStrip(SubSeq(s, 1, Len(s) - 1))
    ELSE s

\* s.strip() of one line
Strip(s) ==
    RStrip(LStrip(s))

\* s.split(c)[...] for a one-character separator c: always at least one part
RECURSIVE Split(_, _)
Split(s, c) ==
    IF \A k \in 1..Len(s) : s[k] # c
    THEN <<s>>
    ELSE LET p == CHOOSE k \in 1..Len(s) :
                      /\ s[k] = c
                      /\ \A m \in 1..(k - 1) : s[m] # c
         IN  <<SubSeq(s, 1, p - 1)>> \o Split(SubSeq(s, p + 1, Len(s)), c)

\* c.join(parts)
RECURSIVE Join(_, _)
Join(parts, c) ==
    IF parts = <<>> THEN <<>>
    ELSE IF Len(parts) = 1 THEN parts[1]
    ELSE parts[1] \o <<c>> \o Join(Tail(parts), c)

\* text.strip() of a text, its leading part: whitespace (line breaks
\* included) is removed up to the first other character
RECURSIVE LStripText(_)
LStripText(t) ==
    IF t = <<>> THEN <<>>
    ELSE IF LStrip(Head(t)) = <<>> THEN LStripText(Tail(t))
    ELSE <<LStrip(Head(t))>> \o Tail(t)

\* text.strip() of a text, its trailing part
RECURSIVE RStripText(_)
RStripText(t) ==
    IF t = <<>> THEN <<>>
    ELSE IF RStrip(t[Len(t)]) = <<>> THEN RStripText(SubSeq(t, 1, Len(t) - 1))
    ELSE SubSeq(t, 1, Len(t) - 1) \o <<RStrip(t[Len(t)])>>

\* text.strip().split('\n'): the lines of the stripped text; a text of
\* whitespace only strips to '', whose split is the one empty line
StripSplit(t) ==
    LET s == RStripText(LStripText(t))
    IN  IF s = <<>> THEN << <<>> >> ELSE s

\* End of the longest run of characters other than ';' that starts at k
\* (the group [^;]+ of the pattern of lines 124, 128, 136)
RECURSIVE RunEnd(_, _)
RunEnd(s, k) ==
    IF k < Len(s) /\ s[k + 1] # ";" THEN RunEnd(s, k + 1) ELSE k

\* Whether the pattern type=([^;]+), case ignored, matches at position k
TypeMatchAt(s, k) ==
    /\ k + 5 <= Len(s)
    /\ s[k] \in {"t", "T"}
    /\ s[k + 1] \in {"y", "Y"}
    /\ s[k + 2] \in {"p", "P"}
    /\ s[k + 3] \in {"e", "E"}
    /\ s[k + 4] = "="
    /\ s[k + 5] # ";"

\* re.sub(r'type=([^;]+)', r'TYPE=\1', s, flags=re.IGNORECASE), from k on
RECURSIVE TypeSubFrom(_, _)
TypeSubFrom(s, k) ==
    IF k > Len(s) THEN <<>>
    ELSE IF TypeMatchAt(s, k)
         THEN LET e == RunEnd(s, k + 5)
              IN  TYPE_EQ \o SubSeq(s, k + 5, e) \o TypeSubFrom(s, e + 1)
         ELSE <<s[k]>> \o TypeSubFrom(s, k + 1)

\* re.sub(r'type=([^;]+)', r'TYPE=\1', s, flags=re.IGNORECASE)
TypeSub(s) ==
    TypeSubFrom(s, 1)

\* End of the longest run of digits that starts at k (k - 1 when s[k] is
\* no digit)
RECURSIVE DigitsEnd(_, _)
DigitsEnd(s, k) ==
    IF k <= Len(s) /\ s[k] \in Digits THEN DigitsEnd(s, k + 1) ELSE k - 1

\* Length of the match of item\d+\.<tok> at position k, 0 when none
ItemMatchLen(s, k, tok) ==
    LET d == DigitsEnd(s, k + 4)
        e == d + 1 + Len(tok)
    IN  IF /\ k + 3 <= Len(s)
           /\ SubSeq(s, k, k + 3) = item
           /\ d >= k + 4
           /\ e <= Len(s)
           /\ s[d + 1] = "."
           /\ SubSeq(s, d + 2, e) = tok
        THEN e - k + 1
        ELSE 0

\* re.sub(r'item\d+\.<tok>', '<tok>', s), from k on
RECURSIVE ItemSubFrom(_, _, _)
ItemSubFrom(s, k, tok) ==
    IF k > Len(s) THEN <<>>
    ELSE LET n == ItemMatchLen(s, k, tok)
         IN  IF n > 0
             THEN tok \o ItemSubFrom(s, k + n, tok)
             ELSE <<s[k]>> \o ItemSubFrom(s, k + 1, tok)

\* re.sub(r'item\d+\.<tok>', '<tok>', s)
ItemSub(s, tok) ==
    ItemSubFrom(s, 1, tok)

\* parts with its trailing empty elements removed (lines 146-147)
RECURSIVE PopEmpty(_)
PopEmpty(parts) ==
    IF parts # <<>> /\ parts[Len(parts)] = <<>>
    THEN PopEmpty(SubSeq(parts, 1, Len(parts) - 1))
    ELSE parts

\* [''] * n: n empty strings, none when n <= 0
Empties(n) ==
    IF n <= 0 THEN <<>> ELSE [k \in 1..n |-> <<>>]

(***************************************************************************)
(* The record splitter (lines 47-65).                                      *)
(***************************************************************************)
\* The card closed: END:VCARD appended unless its last line starts with it
\* (lines 54-56 and 63-65)
CloseCard(card) ==
    IF StartsWith(card[Len(card)], END_VCARD)
    THEN card
    ELSE Append(card, END_VCARD)

(***************************************************************************)
(* The record transformer (lines 69-165).                                  *)
(***************************************************************************)
\* Number of components the N value is padded to (line 148)
NameComponents ==
    5

\* not line.strip()
IsBlank(line) ==
    Strip(line) = <<>>

\* line.startswith(' ') or re.match(r'^[A-Za-z0-9+/=]', line) (line 100)
IsPhotoContinuation(line) ==
    /\ line # <<>>
    /\ \/ line[1] = " "
       \/ line[1] \in Base64Class

\* has_x_abshowas_company (line 81)
HasShowAsCompany(ls) ==
    \E k \in 1..Len(ls) : StartsWith(ls[k], X_ABShowAs_COMPANY)

\* n_field (line 82): the first line that starts with N:, else ''
NField(ls) ==
    IF \E k \in 1..Len(ls) : StartsWith(ls[k], N_)
    THEN ls[CHOOSE k \in 1..Len(ls) :
                /\ StartsWith(ls[k], N_)
                /\ \A m \in 1..(k - 1) : ~StartsWith(ls[m], N_)]
    ELSE <<>>

\* n_parts (line 83)
NParts(ls) ==
    IF NField(ls) # <<>>
    THEN Split(Split(NField(ls), ":")[2], ";")
    ELSE <<>>

\* has_empty_n (line 84)
HasEmptyN(ls) ==
    \A k \in 1..Len(NParts(ls)) : Strip(NParts(ls)[k]) = <<>>

\* is_org as the pre-pass leaves it (lines 80-87)
IsOrg(ls) ==
    \/ HasShowAsCompany(ls)
    \/ /\ HasEmptyN(ls)
       /\ \E k \in 1..Len(ls) : StartsWith(ls[k], ORG_)

\* Update ADR format (lines 122-124)
AdrRule(line) ==
    IF Contains(line, ADR) THEN TypeSub(ItemSub(line, ADR)) ELSE line

\* Update TEL format (lines 127-128)
TelRule(line) ==
    IF StartsWith(line, TEL_) THEN TypeSub(line) ELSE line

\* Update EMAIL format (lines 135-136)
EmailRule(line) ==
    IF StartsWith(line, EMAIL_) THEN TypeSub(line) ELSE line

\* Update URL format (lines 139-140)
UrlRule(line) ==
    IF StartsWith(line, item) THEN ItemSub(line, URL) ELSE line

\* Clean up N field with empty components (lines 143-148)
NameRule(line) ==
    IF StartsWith(line, N_)
    THEN LET parts == PopEmpty(Split(Split(line, ":")[2], ";"))
         IN  N_ \o Join(parts \o Empties(NameComponents - Len(parts)), ";")
    ELSE line

\* any(x in line for x in ['X-APPLE-', 'X-ABADR:', 'X-ABLabel:']) (line 151)
HasAppleField(line) ==
    \/ Contains(line, X_APPLE_)
    \/ Contains(line, X_ABADR_)
    \/ Contains(line, X_ABLabel_)

\* FieldRules with the rules of lines 121-152 made first-match-wins: the
\* first rule whose condition holds is the only one applied
FieldRulesFirstMatch(line) ==
    IF Contains(line, ADR) THEN <<TypeSub(ItemSub(line, ADR))>>
    ELSE IF StartsWith(line, TEL_) THEN <<TypeSub(line)>>
    ELSE IF StartsWith(line, EMAIL_) THEN <<TypeSub(line)>>
    ELSE IF StartsWith(line, item) THEN <<ItemSub(line, URL)>>
    ELSE IF StartsWith(line, N_) THEN <<NameRule(line)>>
    ELSE IF HasAppleField(line) THEN <<>>
    ELSE <<line>>

\* Lines 121-154 on one line: what is appended to new_lines, as a sequence
\* of no line or one line
FieldRules(line) ==
    LET l == NameRule(UrlRule(EmailRule(TelRule(AdrRule(line)))))
    IN  IF HasAppleField(l) THEN <<>> ELSE <<l>>

\* One iteration of the loop of line 89 (lines 90-154): the new value of
\* skip_photo and what is appended to new_lines
RewriteLine(line, skip, st) ==
    IF IsBlank(line) \/ StartsWith(line, BEGIN_VCARD)
    THEN [skip_photo |-> skip, out |-> <<>>]
    ELSE IF st.remove_photos /\ StartsWith(line, PHOTO_)
    THEN [skip_photo |-> TRUE, out |-> <<>>]
    ELSE IF st.remove_photos /\ skip /\ IsPhotoContinuation(line)
    THEN [skip_photo |-> skip, out |-> <<>>]
    ELSE LET sk == IF st.remove_photos /\ skip THEN FALSE ELSE skip
         IN  IF st.remove_fn /\ StartsWith(line, FN_)
             THEN [skip_photo |-> sk, out |-> <<>>]
             ELSE IF StartsWith(line, PRODID_Apple)
             THEN [skip_photo |-> sk, out |-> <<>>]
             ELSE IF StartsWith(line, VERSION_)
             THEN [skip_photo |-> sk, out |-> <<VERSION_4_0>>]
             ELSE IF StartsWith(line, X_ABShowAs_COMPANY)
             THEN [skip_photo |-> sk, out |-> <<>>]
             ELSE [skip_photo |-> sk, out |-> FieldRules(line)]

\* Whether next(...) of line 158 finds a line: otherwise it raises
\* StopIteration
HasVersionLine(nl) ==
    \E k \in 1..Len(nl) : StartsWith(nl[k], VERSION_)

\* version_index (line 158), as a 1-based index
VersionIndex(nl) ==
    CHOOSE k \in 1..Len(nl) :
        /\ StartsWith(nl[k], VERSION_)
        /\ \A m \in 1..(k - 1) : ~StartsWith(nl[m], VERSION_)

\* new_lines after lines 157-159, for a record for which line 158 does not
\* raise
WithKind(nl, org) ==
    IF org
    THEN SubSeq(nl, 1, VersionIndex(nl)) \o <<KIND_org>>
         \o SubSeq(nl, VersionIndex(nl) + 1, Len(nl))
    ELSE nl

\* WithEnd without the check of lines 162-163
WithEndNever(nl) ==
    nl

\* Make sure we end with END:VCARD (lines 162-163)
WithEnd(nl) ==
    IF StartsWith(nl[Len(nl)], END_VCARD) THEN nl ELSE Append(nl, END_VCARD)

\* '\n\n'.join(blocks) (line 167): the blocks with one empty line between
RECURSIVE JoinBlocks(_)
JoinBlocks(blocks) ==
    IF blocks = <<>> THEN << <<>> >>
    ELSE IF Len(blocks) = 1 THEN blocks[1]
    ELSE blocks[1] \o << <<>> >> \o JoinBlocks(Tail(blocks))

(***************************************************************************)
(* One record converted on its own: lines 74-165 run on the lines of one   *)
(* record from the values lines 75-77 give the locals.                     *)
(***************************************************************************)
\* What stands for a record whose conversion raises StopIteration
Failed ==
    <<>>

\* The loop of line 89 from its k-th line on, given skip_photo and new_lines
RECURSIVE RewriteFrom(_, _, _, _, _)
RewriteFrom(ls, k, skip, nl, st) ==
    IF k > Len(ls) THEN nl
    ELSE LET r == RewriteLine(ls[k], skip, st)
         IN  RewriteFrom(ls, k + 1, r.skip_photo, nl \o r.out, st)

\* The block lines 74-165 produce for a record whose lines are ls
TransformAlone(ls, st) ==
    LET nl == RewriteFrom(ls, 1, FALSE, <<BEGIN_VCARD>>, st)
    IN  IF IsOrg(ls) /\ ~HasVersionLine(nl)
        THEN Failed
        ELSE WithEnd(WithKind(nl, IsOrg(ls)))

(***************************************************************************)
(* Input texts.                                                            *)
(***************************************************************************)
\* The empty text: ''.split('\n') is ['']
EmptyText ==
    << <<>> >>

\* The texts of at most MaxLines lines, each line one of alphabet
Texts(alphabet) ==
    {EmptyText} \cup UNION {[1..n -> alphabet] : n \in 1..MaxLines}

\* Records and their markers, the company marker and a photo
StructLines ==
    {BEGIN_VCARD, END_VCARD, L_Version3, X_ABShowAs_COMPANY, L_Photo, L_Tel,
     L_ContTab}

\* Photo fields with their continuation lines, and the fields dropped
\* outright
DropLines ==
    {BEGIN_VCARD, END_VCARD, L_Photo, L_ContSpace, L_ContTab, L_Base64,
     L_Tel, L_Fn, L_Prodid}

\* Structured names and what classifies a record as an organization
NameLines ==
    {BEGIN_VCARD, L_Version3, X_ABShowAs_COMPANY, L_Org, L_NEmpty,
     L_NSmithJohn, L_NSmithLong, L_NSix, L_NColon, L_NBlank, L_NShort}

\* Fields the rewrite rules of lines 121-152 act on
RuleLines ==
    {BEGIN_VCARD, L_Adr, L_XAbAdr, L_Tel, L_Email, L_Url, L_NAdr}

\* The value of `result` before the return
NoResult ==
    <<>>

(***************************************************************************)
(* The state machine: convert_vcard_3_to_4(input_text, settings).          *)
(***************************************************************************)
\* The call, up to line 49
InitWith(alphabet) ==
    /\ input_text \in Texts(alphabet)
    /\ settings \in [remove_fn : BOOLEAN, remove_photos : BOOLEAN]
    /\ pc = "split"
    /\ lines = StripSplit(input_text)
    /\ i = 1
    /\ current_vcard = <<>>
    /\ vcards = <<>>
    /\ v = 1
    /\ new_lines = <<>>
    /\ skip_photo = FALSE
    /\ is_org = FALSE
    /\ converted_vcards = <<>>
    /\ result = NoResult

Init ==
    InitWith(StructLines)

InitDrop ==
    InitWith(DropLines)

InitName ==
    InitWith(NameLines)

InitRules ==
    InitWith(RuleLines)

\* One iteration of the loop of line 51 (lines 52-59).  current_vcard is a
\* list, never None, so the test of line 58 holds for every line that does
\* not start a card.
SplitLine ==
    /\ pc = "split"
    /\ i <= Len(lines)
    /\ IF StartsWith(lines[i], BEGIN_VCARD)
       THEN /\ vcards' = IF current_vcard # <<>>
                         THEN Append(vcards, CloseCard(current_vcard))
                         ELSE vcards
            /\ current_vcard' = <<lines[i]>>
       ELSE /\ vcards' = vcards
            /\ current_vcard' = Append(current_vcard, lines[i])
    /\ i' = i + 1
    /\ UNCHANGED <<input_text, settings, pc, lines, v, new_lines, skip_photo,
                   is_org, converted_vcards, result>>

\* After the loop of line 51: add the last card if there is one (lines
\* 62-67)
SplitFinish ==
    /\ pc = "split"
    /\ i > Len(lines)
    /\ IF current_vcard # <<>>
       THEN /\ current_vcard' = CloseCard(current_vcard)
            /\ vcards' = Append(vcards, CloseCard(current_vcard))
       ELSE UNCHANGED <<current_vcard, vcards>>
    /\ pc' = "convert"
    /\ v' = 1
    /\ UNCHANGED <<input_text, settings, lines, i, new_lines, skip_photo,
                   is_org, converted_vcards, result>>

\* StartRecord without the assignment of line 77: skip_photo keeps the
\* value the previous record left
StartRecordKeepsSkipPhoto ==
    /\ pc = "convert"
    /\ v <= Len(vcards)
    /\ IF StripSplit(vcards[v]) = EmptyText
       THEN /\ v' = v + 1
            /\ UNCHANGED <<pc, lines, i, new_lines, skip_photo, is_org>>
       ELSE /\ lines' = StripSplit(vcards[v])
            /\ new_lines' = <<BEGIN_VCARD>>
            /\ skip_photo' = skip_photo
            /\ is_org' = IsOrg(StripSplit(vcards[v]))
            /\ i' = 1
            /\ pc' = "rewrite"
            /\ v' = v
    /\ UNCHANGED <<input_text, settings, current_vcard, vcards,
                   converted_vcards, result>>

\* The head of one iteration of the loop of line 69 (lines 70-87)
StartRecord ==
    /\ pc = "convert"
    /\ v <= Len(vcards)
    /\ IF StripSplit(vcards[v]) = EmptyText
       THEN /\ v' = v + 1
            /\ UNCHANGED <<pc, lines, i, new_lines, skip_photo, is_org>>
       ELSE /\ lines' = StripSplit(vcards[v])
            /\ new_lines' = <<BEGIN_VCARD>>
            /\ skip_photo' = FALSE
            /\ is_org' = IsOrg(StripSplit(vcards[v]))
            /\ i' = 1
            /\ pc' = "rewrite"
            /\ v' = v
    /\ UNCHANGED <<input_text, settings, current_vcard, vcards,
                   converted_vcards, result>>

\* One iteration of the loop of line 89 (lines 90-154)
RewriteStep ==
    /\ pc = "rewrite"
    /\ i <= Len(lines)
    /\ LET r == RewriteLine(lines[i], skip_photo, settings)
       IN  /\ skip_photo' = r.skip_photo
           /\ new_lines' = new_lines \o r.out
    /\ i' = i + 1
    /\ UNCHANGED <<input_text, settings, pc, lines, current_vcard, vcards, v,
                   is_org, converted_vcards, result>>

\* The tail of one iteration of the loop of line 69 (lines 156-165).  When
\* is_org holds and new_lines has no VERSION: line, next() of line 158
\* raises StopIteration, which nothing in the function catches.
FinishRecord ==
    /\ pc = "rewrite"
    /\ i > Len(lines)
    /\ IF is_org /\ ~HasVersionLine(new_lines)
       THEN /\ pc' = "error"
            /\ UNCHANGED <<new_lines, converted_vcards, v>>
       ELSE /\ new_lines' = WithEnd(WithKind(new_lines, is_org))
            /\ converted_vcards' =
                   Append(converted_vcards, WithEnd(WithKind(new_lines, is_org)))
            /\ v' = v + 1
            /\ pc' = "convert"
    /\ UNCHANGED <<input_text, settings, lines, i, current_vcard, vcards,
                   skip_photo, is_org, result>>

\* The return of line 167
Return ==
    /\ pc = "convert"
    /\ v > Len(vcards)
    /\ result' = JoinBlocks(converted_vcards)
    /\ pc' = "done"
    /\ UNCHANGED <<input_text, settings, lines, i, current_vcard, vcards, v,
                   new_lines, skip_photo, is_org, converted_vcards>>

Next ==
    \/ SplitLine
    \/ SplitFinish
    \/ StartRecord
    \/ RewriteStep
    \/ FinishRecord
    \/ Return

Spec ==
    Init /\ [][Next]_vars

SpecDrop ==
    InitDrop /\ [][Next]_vars

SpecName ==
    InitName /\ [][Next]_vars

SpecRules ==
    InitRules /\ [][Next]_vars

(***************************************************************************)
(* Definitions the properties are stated with.                             *)
(***************************************************************************)
\* Number of lines of a text that start with BEGIN:VCARD
BeginCount(t) ==
    Cardinality({k \in 1..Len(t) : StartsWith(t[k], BEGIN_VCARD)})

\* The input starts with a begin marker, so that no line precedes the first
\* record
StartsWithRecord ==
    StartsWith(StripSplit(input_text)[1], BEGIN_VCARD)

\* The lines of the k-th record, as the transformer reads them
RecordLines(k) ==
    StripSplit(vcards[k])

\* The positions of a block whose line starts with p
LinesWith(block, p) ==
    {m \in 1..Len(block) : StartsWith(block[m], p)}

\* The text of a property line after its first colon
ValueOf(line) ==
    IF \E k \in 1..Len(line) : line[k] = ":"
    THEN LET p == CHOOSE k \in 1..Len(line) :
                      /\ line[k] = ":"
                      /\ \A m \in 1..(k - 1) : line[m] # ":"
         IN  SubSeq(line, p + 1, Len(line))
    ELSE <<>>

\* The non-empty elements of parts, in order
NonEmpty(parts) ==
    SelectSeq(parts, LAMBDA x : x # <<>>)

\* The lines of ls that start with N:, in order
NameFields(ls) ==
    SelectSeq(ls, LAMBDA x : StartsWith(x, N_))

\* A continuation line of a photo field as the specification words it: it
\* starts with whitespace, or consists solely of base64-alphabet characters
IsStatedContinuation(line) ==
    /\ line # <<>>
    /\ \/ line[1] \in Whitespace
       \/ \A k \in 1..Len(line) : line[k] \in Base64Class

\* ls without its photo fields: each line that starts with PHOTO; and the
\* stated continuation lines that immediately follow it
RECURSIVE WithoutPhotoFields(_, _)
WithoutPhotoFields(ls, inPhoto) ==
    IF ls = <<>> THEN <<>>
    ELSE IF StartsWith(Head(ls), PHOTO_)
    THEN WithoutPhotoFields(Tail(ls), TRUE)
    ELSE IF inPhoto /\ IsStatedContinuation(Head(ls))
    THEN WithoutPhotoFields(Tail(ls), TRUE)
    ELSE <<Head(ls)>> \o WithoutPhotoFields(Tail(ls), FALSE)

\* The structured name of a record is empty as the specification words it:
\* the value of its N: field has only blank components, or it has no N: field
StatedEmptyName(ls) ==
    \/ NameFields(ls) = <<>>
    \/ LET parts == Split(ValueOf(NameFields(ls)[1]), ";")
       IN  \A k \in 1..Len(parts) : Strip(parts[k]) = <<>>

\* A record is an organization as the specification words it
StatedOrg(ls) ==
    \/ HasShowAsCompany(ls)
    \/ /\ StatedEmptyName(ls)
       /\ \E k \in 1..Len(ls) : StartsWith(ls[k], ORG_)

\* The line the rewrite loop is on passes every rule of lines 90-119 and
\* reaches the rules of lines 121-152
ReachesFieldRules ==
    /\ pc = "rewrite"
    /\ i <= Len(lines)
    /\ ~IsBlank(lines[i])
    /\ ~StartsWith(lines[i], BEGIN_VCARD)
    /\ settings.remove_photos =>
           /\ ~StartsWith(lines[i], PHOTO_)
           /\ ~(skip_photo /\ IsPhotoContinuation(lines[i]))
    /\ ~(settings.remove_fn /\ StartsWith(lines[i], FN_))
    /\ ~StartsWith(lines[i], PRODID_Apple)
    /\ ~StartsWith(lines[i], VERSION_)
    /\ ~StartsWith(lines[i], X_ABShowAs_COMPANY)

(***************************************************************************)
(* The properties.                                                         *)
(***************************************************************************)
\* C1: when the conversion returns, the number of blocks of the output
\* equals the number of lines of the input that start with BEGIN:VCARD (so
\* an input without such a line, the empty input included, yields no block).
C1_BlockPerBeginMarker ==
    pc = "done" => Len(converted_vcards) = BeginCount(input_text)

\* C2: the conversion is total: whatever the settings, it never ends in an
\* error, also when an organization has no VERSION: line (stated for the
\* inputs that start with a begin marker).
C2_NeverFails ==
    StartsWithRecord => pc # "error"

\* C3: a record with a line starting with X-ABShowAs:COMPANY is converted
\* to a block with exactly one KIND:org line, placed right after a
\* VERSION:4.0 line, and with no X-ABShowAs:COMPANY line (stated for the
\* inputs that start with a begin marker).
C3_CompanyGetsOneKind ==
    StartsWithRecord =>
    /\ pc = "error" => ~HasShowAsCompany(lines)
    /\ \A k \in 1..Len(converted_vcards) :
           HasShowAsCompany(RecordLines(k)) =>
               LET b == converted_vcards[k]
               IN  /\ Cardinality(LinesWith(b, KIND_org)) = 1
                   /\ \A m \in LinesWith(b, KIND_org) :
                          m > 1 /\ b[m - 1] = VERSION_4_0
                   /\ LinesWith(b, X_ABShowAs_COMPANY) = {}

\* C4: with remove_photos set, the block of a record is the block the same
\* record yields with its photo fields (each PHOTO; line and the stated
\* continuation lines right after it) taken out: the first line after a
\* photo that is no continuation line, and every later line, is treated as
\* if there were no photo (stated for the inputs that start with a begin
\* marker).
C4_PhotoSkipEndsAtNextField ==
    (StartsWithRecord /\ settings.remove_photos) =>
        \A k \in 1..Len(converted_vcards) :
            converted_vcards[k] =
                TransformAlone(WithoutPhotoFields(RecordLines(k), FALSE), settings)

\* C5: every N: line of an output block has exactly NameComponents
\* components, and the N: lines of the block keep, in order, the non-empty
\* components of the N: lines of the record (stated for the inputs that
\* start with a begin marker).
C5_NameHasFiveComponents ==
    StartsWithRecord =>
    \A k \in 1..Len(converted_vcards) :
        LET src == NameFields(RecordLines(k))
            out == NameFields(converted_vcards[k])
        IN  /\ \A m \in 1..Len(out) :
                   Len(Split(ValueOf(out[m]), ";")) = NameComponents
            /\ Len(src) = Len(out) =>
                   \A m \in 1..Len(out) :
                       NonEmpty(Split(ValueOf(out[m]), ";"))
                           = NonEmpty(Split(ValueOf(src[m]), ";"))

\* C6: every block of the output starts with the line BEGIN:VCARD and ends
\* with a line that starts with END:VCARD.
C6_BlockHasBeginAndEnd ==
    \A k \in 1..Len(converted_vcards) :
        LET b == converted_vcards[k]
        IN  /\ b # <<>>
            /\ b[1] = BEGIN_VCARD
            /\ StartsWith(b[Len(b)], END_VCARD)
            /\ Len(b) >= 2

\* C6 witness: a record made of a begin marker, a photo and an end marker is
\* converted with remove_photos set; the rewrite pass drops its END:VCARD
\* line, and the block still ends with one.
C6_Witness ==
    /\ pc = "done"
    /\ settings.remove_photos
    /\ input_text = <<BEGIN_VCARD, L_Photo, END_VCARD>>
    /\ converted_vcards = << <<BEGIN_VCARD, END_VCARD>> >>

\* C7: a record gets a KIND:org line if and only if it is an organization
\* as the specification words it: it has the company marker, or its
\* structured name is empty and it has an ORG: line (stated for the inputs
\* that start with a begin marker).
C7_KindIffOrganization ==
    StartsWithRecord =>
    /\ pc = "error" => ~StatedOrg(lines)
    /\ \A k \in 1..Len(converted_vcards) :
           LinesWith(converted_vcards[k], KIND_org) # {}
               <=> StatedOrg(RecordLines(k))

\* C8: no state carries from one record to the next: each record starts
\* with skip_photo off and new_lines holding the begin marker only, is_org
\* is that of the record's own lines, and every block is the block its
\* record yields when converted on its own.
C8_NoCrossRecordState ==
    /\ (pc = "rewrite" /\ i = 1) =>
           /\ skip_photo = FALSE
           /\ new_lines = <<BEGIN_VCARD>>
    /\ pc = "rewrite" => is_org = IsOrg(RecordLines(v))
    /\ \A k \in 1..Len(converted_vcards) :
           converted_vcards[k] = TransformAlone(RecordLines(k), settings)

\* C8 witness: with remove_photos set, a record that ends inside a photo
\* field is followed by a record with a telephone line, and the second
\* block holds the telephone line.
C8_Witness ==
    /\ pc = "done"
    /\ settings.remove_photos
    /\ \E k \in 2..Len(converted_vcards) :
           /\ Len(RecordLines(k - 1)) >= 2
           /\ StartsWith(RecordLines(k - 1)[Len(RecordLines(k - 1)) - 1], PHOTO_)
           /\ LinesWith(converted_vcards[k], TEL_) # {}

\* C9: while the splitter has met no begin marker it appends nothing to a
\* record buffer and forms no record, and every record it forms starts with
\* a begin marker.
C9_StrayLinesDropped ==
    /\ (pc = "split" /\ BeginCount(SubSeq(lines, 1, i - 1)) = 0) =>
           /\ current_vcard = <<>>
           /\ vcards = <<>>
    /\ \A k \in 1..Len(vcards) : StartsWith(vcards[k][1], BEGIN_VCARD)

\* C10 as stated: the rules are first-match-wins, so a line that reaches the
\* address rule and contains ADR is emitted as that rule rewrites it, and no
\* later rule rewrites or drops it (stated for the inputs that start with a
\* begin marker).
C10_FirstMatchWins ==
    [][(StartsWithRecord /\ ReachesFieldRules /\ Contains(lines[i], ADR)) =>
           new_lines' = Append(new_lines, TypeSub(ItemSub(lines[i], ADR)))]_vars

\* C10 as amended: the rules of lines 121-152 fall through: a line that
\* contains ADR is still normalised by the N: rule and still dropped by the
\* vendor-field rule, so no emitted line holds X-APPLE-, X-ABADR: or
\* X-ABLabel:, and every emitted N: line has at least NameComponents
\* components.
C10_RulesFallThrough ==
    \A k \in 1..Len(converted_vcards) :
        \A m \in 1..Len(converted_vcards[k]) :
            LET line == converted_vcards[k][m]
            IN  /\ ~HasAppleField(line)
                /\ StartsWith(line, N_) =>
                       Len(Split(ValueOf(line), ";")) >= NameComponents

\* C10 witness: a record with a line that holds both ADR and a vendor
\* marker, and with an N: line that holds ADR, has been converted.
C10_Witness ==
    \E k \in 1..Len(converted_vcards) :
        /\ \E m \in 1..Len(RecordLines(k)) :
               /\ Contains(RecordLines(k)[m], ADR)
               /\ HasAppleField(RecordLines(k)[m])
        /\ \E m \in 1..Len(RecordLines(k)) :
               /\ Contains(RecordLines(k)[m], ADR)
               /\ StartsWith(RecordLines(k)[m], N_)

=============================================================================
